---- MODULE Spec2Model ----
(***************************************************************************)
(* The agentic RAG workflow of src/agent/graph.py (AgentGraph) together    *)
(* with the collaborators it drives: DocumentRetriever, RelevanceGrader,   *)
(* AnswerGenerator, HallucinationGrader, ResearchRefiner, WebSearchTool    *)
(* and ResearchSynthesizer.  One step of the model is one node of the      *)
(* compiled LangGraph, including the conditional edge evaluated after it.  *)
(*                                                                         *)
(* Texts are sequences of tokens; a Document is a record of its            *)
(* page_content and metadata.  The rendered prompt/context strings         *)
(* (AgentState.context) are not read by any node and are left out.         *)
(***************************************************************************)
EXTENDS Integers, Sequences, FiniteSets, TLC

VARIABLES
    pc,                 \* the node about to run, or "END" / "ABORTED"
    top_k,              \* DocumentRetriever.top_k
    hybrid,             \* DocumentRetriever.bm25_retriever is not None
    input,              \* inputs["question"] handed to app.invoke
    keys,               \* the keys present in the AgentState dict
    question,           \* AgentState.question
    documents,          \* AgentState.documents
    retry_count,        \* AgentState.retry_count
    answer,             \* AgentState.answer
    sources,            \* AgentState.sources
    context_used,       \* AgentState.context_used
    research_queries,   \* AgentState.research_queries
    is_web,             \* AgentState.is_web
    hallucination_grade,\* AgentState.hallucination_grade
    messages,           \* AgentState.messages (operator.add reducer)
    history,            \* the nodes executed so far, in order
    io,                 \* the collaborator calls made by the last node
    fault,              \* the collaborator whose exception left app.invoke
    rt,                 \* the frame of a direct call of DocumentRetriever.retrieve
                        \* or of TextChunker.chunk_documents
    peer                \* the other app.invoke in flight on the same graph, between
                        \* two of its steps


vars == <<pc, top_k, hybrid, input, keys, question, documents, retry_count,
          answer, sources, context_used, research_queries, is_web,
          hallucination_grade, messages, history, io, fault, rt, peer>>

state == <<keys, question, documents, retry_count, answer, sources,
           context_used, research_queries, is_web, hallucination_grade,
           messages>>

config == <<top_k, hybrid, input>>

-----------------------------------------------------------------------------
(* Bounds of the model *)

\* largest configured top_k; search result lists hold at most top_k hits
MaxTopK == 2
\* results the search provider yields for one query
MaxWebHits == 1
\* documents handed to one chunk_documents call
MaxDocs == 2

(* Program constants *)

max_retries == 1
rrf_c == 60
similarity_threshold == 70      \* 0.7, in hundredths
max_results == 5
multi_query_limit == 3
max_queries == 3

-----------------------------------------------------------------------------
(* Generic helpers *)

RECURSIVE SeqsUpTo(_, _)
SeqsUpTo(S, n) ==
    IF n = 0 THEN {<<>>}
    ELSE LET shorter == SeqsUpTo(S, n - 1)
         IN  shorter \cup {Append(s, x) : s \in {t \in shorter : Len(t) = n - 1}, x \in S}

\* the Python slice s[:n]
\* a merge that forgets to truncate
Take_all(s, n) == s

Take(s, n) ==
    IF n >= 0 THEN SubSeq(s, 1, IF n < Len(s) THEN n ELSE Len(s))
    ELSE SubSeq(s, 1, IF Len(s) + n > 0 THEN Len(s) + n ELSE 0)

Count(s, x) == Cardinality({i \in DOMAIN s : s[i] = x})

Min(a, b) == IF a < b THEN a ELSE b

-----------------------------------------------------------------------------
(* Documents *)

Contents == {"alpha", "beta"}
Questions == {<<"revenue">>, <<"risks">>}

PageOf(c) == IF c = "alpha" THEN <<"p", 1>> ELSE <<"p", 2>>

\* a chunk of the corpus as returned at position rank by one search
LocalDoc(c, via, rank) ==
    [page_content |-> <<c>>,
     metadata |-> [filename |-> "report.pdf", page |-> PageOf(c), type |-> "text"],
     obj |-> <<via, rank>>]

-----------------------------------------------------------------------------
(* The search collaborators: what a call can come back with *)

Raise == [raised |-> TRUE, value |-> <<>>]
Return(v) == [raised |-> FALSE, value |-> v]

\* BM25Retriever.invoke / vectorstore.similarity_search: at most k chunk texts
SearchOutcomes(k) == {Raise} \cup {Return(h) : h \in SeqsUpTo(Contents, k)}

ScoreLevels == {50, 70, 90}     \* similarity scores, in hundredths
ScoredHits == {[content |-> c, score |-> sc] : c \in Contents, sc \in ScoreLevels}

\* vectorstore.similarity_search_with_score: at most k (chunk text, score) pairs
ScoredOutcomes(k) == {Raise} \cup {Return(h) : h \in SeqsUpTo(ScoredHits, k)}

DocsOf(hits, via) == [i \in DOMAIN hits |-> LocalDoc(hits[i], via, i)]

-----------------------------------------------------------------------------
(* DocumentRetriever *)

\* a filter that drops a hit whose score equals the threshold
RECURSIVE AboveThreshold_strict(_, _)
AboveThreshold_strict(results, pos) ==
    IF pos > Len(results) THEN <<>>
    ELSE IF results[pos].score > similarity_threshold
         THEN <<LocalDoc(results[pos].content, "vector", pos)>>
                  \o AboveThreshold_strict(results, pos + 1)
         ELSE AboveThreshold_strict(results, pos + 1)

RECURSIVE AboveThreshold(_, _)
AboveThreshold(results, pos) ==
    IF pos > Len(results) THEN <<>>
    ELSE IF results[pos].score >= similarity_threshold
         THEN <<LocalDoc(results[pos].content, "vector", pos)>>
                  \o AboveThreshold(results, pos + 1)
         ELSE AboveThreshold(results, pos + 1)

\* _retrieve_semantic: the vector hits whose score reaches the threshold
retrieve_semantic(vec) ==
    IF vec.raised THEN Raise ELSE Return(AboveThreshold(vec.value, 1))

RECURSIVE Product(_, _)
Product(lo, hi) == IF lo > hi THEN 1 ELSE lo * Product(lo + 1, hi)

\* 1 / (c + rank + 1) for the 0-based rank of enumerate(), i.e. 1 / (c + r) for
\* the 1-based position r, as an integer multiple of 1 / RRFScale
RRFScale == Product(rrf_c + 1, rrf_c + MaxTopK + 1)
\* a contribution computed from the 0-based rank without the + 1
rrf_term_zero_based(r) == RRFScale \div (rrf_c + r - 1)
rrf_term(r) == RRFScale \div (rrf_c + r)

RECURSIVE SumTerms(_, _, _)
SumTerms(docs, key, pos) ==
    IF pos > Len(docs) THEN 0
    ELSE (IF docs[pos].page_content = key THEN rrf_term(pos) ELSE 0)
             + SumTerms(docs, key, pos + 1)

\* a score that ignores the vector list
rrf_score_keyword_only(bm25_docs, vector_results, key) == SumTerms(bm25_docs, key, 1)

\* scores[key] after both loops
rrf_score(bm25_docs, vector_results, key) ==
    SumTerms(bm25_docs, key, 1) + SumTerms(vector_results, key, 1)

\* keys collected without merging equal contents
FirstSeen_no_dedup(docs, seen) == [i \in DOMAIN docs |-> docs[i].page_content]

\* the keys of the scores dict in insertion order
RECURSIVE FirstSeen(_, _)
FirstSeen(docs, seen) ==
    IF docs = <<>> THEN <<>>
    ELSE IF Head(docs).page_content \in seen THEN FirstSeen(Tail(docs), seen)
         ELSE <<Head(docs).page_content>>
                  \o FirstSeen(Tail(docs), seen \cup {Head(docs).page_content})

\* a doc_map filled by the vector loop first: the first vector document with
\* that content, else the last BM25 document
doc_map_vector_first(bm25_docs, vector_results, key) ==
    LET kw == {i \in DOMAIN bm25_docs : bm25_docs[i].page_content = key}
        vs == {i \in DOMAIN vector_results : vector_results[i].page_content = key}
    IN  IF vs # {} THEN vector_results[CHOOSE i \in vs : \A j \in vs : i <= j]
        ELSE bm25_docs[CHOOSE i \in kw : \A j \in kw : j <= i]

\* doc_map[key]: the last BM25 document with that content, else the first
\* vector document with it
doc_map(bm25_docs, vector_results, key) ==
    LET kw == {i \in DOMAIN bm25_docs : bm25_docs[i].page_content = key}
        vs == {i \in DOMAIN vector_results : vector_results[i].page_content = key}
    IN  IF kw # {} THEN bm25_docs[CHOOSE i \in kw : \A j \in kw : j <= i]
        ELSE vector_results[CHOOSE i \in vs : \A j \in vs : i <= j]

\* a descending sort that is not stable: among equal scores the last comes first
RECURSIVE SortedDesc_unstable(_, _, _)
SortedDesc_unstable(ks, bm25_docs, vector_results) ==
    IF ks = <<>> THEN <<>>
    ELSE LET sc(i) == rrf_score(bm25_docs, vector_results, ks[i])
             best == CHOOSE i \in DOMAIN ks :
                        /\ \A j \in DOMAIN ks : sc(j) <= sc(i)
                        /\ \A j \in DOMAIN ks : sc(j) = sc(i) => j <= i
             rest == [j \in 1..(Len(ks) - 1) |-> IF j < best THEN ks[j] ELSE ks[j + 1]]
         IN  <<ks[best]>> \o SortedDesc_unstable(rest, bm25_docs, vector_results)

\* sorted(items, key=score, reverse=True): descending, equal scores keep
\* their insertion order
RECURSIVE SortedDesc(_, _, _)
SortedDesc(ks, bm25_docs, vector_results) ==
    IF ks = <<>> THEN <<>>
    ELSE LET sc(i) == rrf_score(bm25_docs, vector_results, ks[i])
             best == CHOOSE i \in DOMAIN ks :
                        /\ \A j \in DOMAIN ks : sc(j) <= sc(i)
                        /\ \A j \in DOMAIN ks : sc(j) = sc(i) => i <= j
             rest == [j \in 1..(Len(ks) - 1) |-> IF j < best THEN ks[j] ELSE ks[j + 1]]
         IN  <<ks[best]>> \o SortedDesc(rest, bm25_docs, vector_results)

rrf_fuse(bm25_docs, vector_results, k) ==
    LET order == SortedDesc(FirstSeen(bm25_docs \o vector_results, {}),
                            bm25_docs, vector_results)
        top == Take(order, k)
    IN  [i \in DOMAIN top |-> doc_map(bm25_docs, vector_results, top[i])]

\* _retrieve_hybrid: BM25 first, then the vector search, then the fusion; an
\* exception of either search leaves the method
retrieve_hybrid(kw, vec, k) ==
    IF kw.raised \/ vec.raised THEN Raise
    ELSE Return(rrf_fuse(DocsOf(kw.value, "bm25"), DocsOf(vec.value, "vector"), k))

-----------------------------------------------------------------------------
(* Language-model collaborators: llm.invoke returns a text or raises *)

\* str.lower(), token by token
LowerTok(t) ==
    CASE t = "Yes" -> "yes"
      [] t = "No" -> "no"
      [] t = "I Cannot Answer" -> "i cannot answer"
      [] t = "Cannot answer" -> "cannot answer"
      [] OTHER -> t
Lower(text) == [i \in DOMAIN text |-> LowerTok(text[i])]

\* needle in text
Contains(text, needle) == \E i \in DOMAIN text : text[i] = needle

JudgeResponses == {<<"yes">>, <<"Yes">>, <<"no">>, <<"No">>, <<"unsure">>, <<>>}
JudgeOutcomes == {Raise} \cup {Return(r) : r \in JudgeResponses}

\* RelevanceGrader.grade for non-empty documents, given the judge's outcome
grade_with_judge(judge) ==
    IF judge.raised THEN "relevant"
    ELSE IF Contains(Lower(judge.value), "yes") THEN "relevant" ELSE "irrelevant"

\* a grader that consults the judge on empty evidence too
relevance_grade_always_judge(docs, judge) == grade_with_judge(judge)

\* RelevanceGrader.grade
relevance_grade(docs, judge) ==
    IF docs = <<>> THEN "irrelevant" ELSE grade_with_judge(judge)

\* a groundedness check that fails closed
check_groundedness_fail_closed(judge) ==
    ~judge.raised /\ Contains(Lower(judge.value), "yes")

\* HallucinationGrader.check_groundedness
check_groundedness(judge) ==
    IF judge.raised THEN TRUE ELSE Contains(Lower(judge.value), "yes")

GeneratedAnswers ==
    {<<"Revenue grew 10% in Q4.">>,
     <<"I", "Cannot answer", "based on the context provided.">>,
     <<"The", "information is not available", "in the documents.">>}
GeneratorOutcomes == {Raise} \cup {Return(a) : a \in GeneratedAnswers}

\* a generator that reports no sources
extract_sources_none(docs, seen) == <<>>

\* AnswerGenerator._extract_sources: one entry per (filename, page), first seen
RECURSIVE extract_sources(_, _)
extract_sources(docs, seen) ==
    IF docs = <<>> THEN <<>>
    ELSE LET m == Head(docs).metadata
             source_key == <<m.filename, m.page>>
         IN  IF source_key \in seen THEN extract_sources(Tail(docs), seen)
             ELSE <<[filename |-> m.filename, page |-> m.page]>>
                      \o extract_sources(Tail(docs), seen \cup {source_key})

\* AnswerGenerator.generate_answer: no handler around llm.invoke
generate_answer(docs, llm) ==
    IF llm.raised THEN Raise
    ELSE Return([answer |-> llm.value,
                 sources |-> extract_sources(docs, {}),
                 context_used |-> Len(docs)])

refusal_indicators ==
    {"i don't have enough information",
     "context does not contain",
     "information is not available",
     "cannot provide an answer",
     "cannot answer",
     "answer based on the context provided"}

\* a refusal test on the answer as written, not lower-cased
is_refusal_case_sensitive(ans) == \E ind \in refusal_indicators : Contains(ans, ind)

is_refusal(ans) == \E ind \in refusal_indicators : Contains(Lower(ans), ind)

-----------------------------------------------------------------------------
(* ResearchRefiner, WebSearchTool, ResearchSynthesizer *)

\* one line of the planner's response: blank, or a query behind a list marker
PlanLines == {<<>>, <<"-", "q4", "revenue">>}
\* responses of up to one line more than the planner keeps
PlannerOutcomes ==
    {Raise} \cup {Return(c) : c \in SeqsUpTo(PlanLines, max_queries + 1)}

\* q.strip().lstrip("- ").lstrip("123. ")
RECURSIVE strip_markers(_)
strip_markers(line) ==
    IF line # <<>> /\ Head(line) \in {"-", "1.", "2.", "3."}
    THEN strip_markers(Tail(line)) ELSE line

RECURSIVE parse_lines(_)
parse_lines(lines) ==
    IF lines = <<>> THEN <<>>
    ELSE IF Head(lines) = <<>> THEN parse_lines(Tail(lines))
         ELSE <<strip_markers(Head(lines))>> \o parse_lines(Tail(lines))

\* ResearchRefiner.generate_queries
generate_queries(q, llm) ==
    IF llm.raised THEN <<q>> ELSE Take(parse_lines(llm.value), max_queries)

\* what the search provider does for a list of queries: it is not installed,
\* it raises, or it yields hits[i] results for the i-th query
Unavailable == [raised |-> FALSE, value |-> <<>>, installed |-> FALSE]
WebOutcomes(n) ==
    {Unavailable, Raise} \cup {Return(h) : h \in [1..n -> 0..MaxWebHits]}

WebResult(q, i, j) ==
    [title |-> "title", href |-> <<"url", i, j>>, body |-> "snippet", query |-> q]

RECURSIVE all_results(_, _, _)
all_results(queries, hits, i) ==
    IF i > Len(queries) THEN <<>>
    ELSE LET limit == IF Len(queries) > 1 THEN multi_query_limit ELSE max_results
         IN  [j \in 1..Min(hits[i], limit) |-> WebResult(queries[i], i, j)]
                 \o all_results(queries, hits, i + 1)

\* a search tool that answers a failure with a placeholder result
web_tool_search_placeholder(queries, web) ==
    IF "installed" \in DOMAIN web \/ web.raised
    THEN <<WebResult(queries[1], 1, 1)>>
    ELSE all_results(queries, web.value, 1)

\* WebSearchTool.search
web_tool_search(queries, web) ==
    IF "installed" \in DOMAIN web \/ web.raised THEN <<>>
    ELSE all_results(queries, web.value, 1)

\* the pseudo-Document web_search builds from one result
WebDoc(res) ==
    [page_content |-> <<res.title, res.body>>,
     metadata |-> [filename |-> "Web Search", page |-> res.href,
                   type |-> "web", query |-> res.query]]

SynthesizedAnswers == {<<"Report", "[Web 1]">>}
SynthOutcomes == {Raise} \cup {Return(a) : a \in SynthesizedAnswers}

\* a synthesizer without the error string
synthesize_unguarded(llm) == llm.value

\* ResearchSynthesizer.synthesize
synthesize(llm) ==
    IF llm.raised THEN <<"Error synthesizing research:">> ELSE llm.value

-----------------------------------------------------------------------------
(* AgentGraph: the conditional edges *)

\* variants of decide_to_generate: the retry guard off by one, and no retry
decide_to_generate_off_by_one(docs, retries) ==
    IF docs = <<>>
    THEN IF retries <= max_retries THEN "transform_query" ELSE "plan_research"
    ELSE "generate"

decide_to_generate_no_retry(docs, retries) ==
    IF docs = <<>> THEN "plan_research" ELSE "generate"

decide_to_generate_always(docs, retries) == "generate"

\* AgentGraph.decide_to_generate
decide_to_generate(docs, retries) ==
    IF docs = <<>>
    THEN IF retries < max_retries THEN "transform_query" ELSE "plan_research"
    ELSE "generate"

\* variants of decide_after_check: the is_web test left out, and the grade
\* test inverted
decide_after_check_no_web_test(grade, web) ==
    IF grade = "grounded" THEN "END" ELSE "plan_research"

decide_after_check_inverted(grade, web) ==
    IF grade # "grounded" THEN "END"
    ELSE IF web THEN "END"
    ELSE "plan_research"

decide_after_check_retrieve_again(grade, web) ==
    IF grade = "grounded" THEN "END"
    ELSE IF web THEN "END"
    ELSE "retrieve"

\* AgentGraph.decide_after_check
decide_after_check(grade, web) ==
    IF grade = "grounded" THEN "END"
    ELSE IF web THEN "END"
    ELSE "plan_research"

\* variant of edge: the synthesized answer is sent to the verifier as the
\* generated one is
edge_synthesis_checked(node) ==
    CASE node = "retrieve" -> "grade_documents"
      [] node = "transform_query" -> "retrieve"
      [] node = "generate" -> "check_hallucination"
      [] node = "plan_research" -> "web_search"
      [] node = "web_search" -> "synthesize_research"
      [] node = "synthesize_research" -> "check_hallucination"

\* variant of edge: the web documents are sent to the verifier
edge_web_search_checked(node) ==
    CASE node = "retrieve" -> "grade_documents"
      [] node = "transform_query" -> "retrieve"
      [] node = "generate" -> "check_hallucination"
      [] node = "plan_research" -> "web_search"
      [] node = "web_search" -> "check_hallucination"
      [] node = "synthesize_research" -> "END"

\* the unconditional edges added with workflow.add_edge
edge(node) ==
    CASE node = "retrieve" -> "grade_documents"
      [] node = "transform_query" -> "retrieve"
      [] node = "generate" -> "check_hallucination"
      [] node = "plan_research" -> "web_search"
      [] node = "web_search" -> "synthesize_research"
      [] node = "synthesize_research" -> "END"

\* variant of incremented: the count is returned as it was
not_incremented(retries) == retries

\* retry_count + 1
incremented(retries) == retries + 1

\* variant of web_flag: the flag is returned unset
web_flag_unset == FALSE

\* the is_web value web_search returns
web_flag == TRUE

\* f"{question} overview details"
\* a transformation that leaves the question as it is
better_question_unchanged(q) == q

better_question(q) == q \o <<"overview", "details">>

\* state.get(key, default)
get_retry_count == IF "retry_count" \in keys THEN retry_count ELSE 0
get_is_web == IF "is_web" \in keys THEN is_web ELSE FALSE
get_research_queries == IF "research_queries" \in keys THEN research_queries ELSE <<>>

\* final_state.get("context_used", 0)
get_context_used == IF "context_used" \in keys THEN context_used ELSE 0

\* app.invoke runs for one question only
NoPeer == [id |-> 0]

\* no direct retrieve call is in progress
NoFrame == [at |-> "idle"]

Call(callee, arg, out) == [callee |-> callee, arg |-> arg, out |-> out]

-----------------------------------------------------------------------------
(* AgentGraph: the state machine *)

\* app.invoke({"question": ...}) on a freshly built graph
Init ==
    /\ top_k \in 1..MaxTopK
    /\ hybrid \in BOOLEAN
    /\ input \in Questions
    /\ pc = "retrieve"
    /\ keys = {"question"}
    /\ question = input
    /\ documents = <<>>
    /\ retry_count = 0
    /\ answer = <<>>
    /\ sources = <<>>
    /\ context_used = 0
    /\ research_queries = <<>>
    /\ is_web = FALSE
    /\ hallucination_grade = "unset"
    /\ messages = <<>>
    /\ history = <<>>
    /\ io = <<>>
    /\ fault = "none"
    /\ rt = NoFrame
    /\ peer = NoPeer

\* an exception leaves the node and app.invoke
Abort(node, who, calls) ==
    /\ pc' = "ABORTED"
    /\ fault' = who
    /\ history' = Append(history, node)
    /\ io' = calls
    /\ UNCHANGED <<state, config, rt, peer>>

\* a graph that keeps the documents of the last step in an attribute of its
\* own, where the other invocation finds them
Step_shared_documents(node, next, calls) ==
    /\ pc' = next
    /\ history' = Append(history, node)
    /\ io' = calls
    /\ peer' = IF peer = NoPeer THEN peer ELSE [peer EXCEPT !.documents = documents']
    /\ UNCHANGED <<fault, config, rt>>

\* the node's return value has been merged into the state
Step(node, next, calls) ==
    /\ pc' = next
    /\ history' = Append(history, node)
    /\ io' = calls
    /\ UNCHANGED <<fault, config, rt, peer>>

\* AgentGraph.retrieve with DocumentRetriever.retrieve(question)
retrieve ==
    /\ pc = "retrieve"
    /\ \/ /\ hybrid
          /\ \E kw \in SearchOutcomes(top_k), vec \in SearchOutcomes(top_k) :
               LET got == retrieve_hybrid(kw, vec, top_k)
                   kwCall == Call("bm25", question, kw)
                   vecCall == Call("vector", <<question, top_k>>, vec)
               IN  IF kw.raised THEN Abort("retrieve", "bm25", <<kwCall>>)
                   ELSE IF vec.raised
                        THEN Abort("retrieve", "vector", <<kwCall, vecCall>>)
                   ELSE /\ documents' = got.value
                        /\ keys' = keys \cup {"documents", "question"}
                        /\ Step("retrieve", edge("retrieve"), <<kwCall, vecCall>>)
                        /\ UNCHANGED <<question, retry_count, answer, sources,
                                       context_used, research_queries, is_web,
                                       hallucination_grade, messages>>
       \/ /\ ~hybrid
          /\ \E vec \in ScoredOutcomes(top_k) :
               LET got == retrieve_semantic(vec)
                   vecCall == Call("vector", <<question, top_k>>, vec)
               IN  IF got.raised THEN Abort("retrieve", "vector", <<vecCall>>)
                   ELSE /\ documents' = got.value
                        /\ keys' = keys \cup {"documents", "question"}
                        /\ Step("retrieve", edge("retrieve"), <<vecCall>>)
                        /\ UNCHANGED <<question, retry_count, answer, sources,
                                       context_used, research_queries, is_web,
                                       hallucination_grade, messages>>

\* a grade_documents that keeps the evidence whatever the grade
graded_documents_kept(grade, docs) == docs

\* the documents grade_documents returns for a grade
graded_documents(grade, docs) == IF grade = "irrelevant" THEN <<>> ELSE docs

\* AgentGraph.grade_documents, then the edge decide_to_generate
grade_documents ==
    /\ pc = "grade_documents"
    /\ \E judge \in (IF documents = <<>> THEN {Raise} ELSE JudgeOutcomes) :
         LET grade == relevance_grade(documents, judge)
             calls == IF documents = <<>> THEN <<>>
                      ELSE <<Call("relevance_judge", question, judge)>>
             kept == graded_documents(grade, documents)
         IN  /\ documents' = kept
             /\ retry_count' = get_retry_count
             /\ keys' = keys \cup {"documents", "retry_count"}
             /\ Step("grade_documents",
                     decide_to_generate(kept, get_retry_count), calls)
             /\ UNCHANGED <<question, answer, sources, context_used,
                            research_queries, is_web, hallucination_grade,
                            messages>>

\* AgentGraph.transform_query, then the edge to retrieve
transform_query ==
    /\ pc = "transform_query"
    /\ question' = better_question(question)
    /\ retry_count' = incremented(get_retry_count)
    /\ keys' = keys \cup {"question", "retry_count"}
    /\ Step("transform_query", edge("transform_query"), <<>>)
    /\ UNCHANGED <<documents, answer, sources, context_used, research_queries,
                   is_web, hallucination_grade, messages>>

\* AgentGraph.generate, then the edge to check_hallucination
generate ==
    /\ pc = "generate"
    /\ \E llm \in GeneratorOutcomes :
         LET result == generate_answer(documents, llm)
             calls == <<Call("generator", question, llm)>>
         IN  IF result.raised THEN Abort("generate", "generator", calls)
             ELSE /\ answer' = result.value.answer
                  /\ sources' = result.value.sources
                  /\ context_used' = result.value.context_used
                  /\ messages' = Append(messages, result.value.answer)
                  /\ keys' = keys \cup {"messages", "context", "answer",
                                        "sources", "context_used"}
                  /\ Step("generate", edge("generate"), calls)
                  /\ UNCHANGED <<question, documents, retry_count,
                                 research_queries, is_web, hallucination_grade>>

\* a verdict that tests for a refusal before it tests for evidence
verdict_refusal_first(ans, docs, judge) ==
    IF is_refusal(ans) THEN "hallucinated"
    ELSE IF docs = <<>> THEN "grounded"
    ELSE IF check_groundedness(judge) THEN "grounded" ELSE "hallucinated"

\* the verdict of AgentGraph.check_hallucination
verdict(ans, docs, judge) ==
    IF docs = <<>> THEN "grounded"
    ELSE IF is_refusal(ans) THEN "hallucinated"
    ELSE IF check_groundedness(judge) THEN "grounded" ELSE "hallucinated"

\* AgentGraph.check_hallucination, then the edge decide_after_check
check_hallucination ==
    /\ pc = "check_hallucination"
    /\ LET judged == documents # <<>> /\ ~is_refusal(answer)
       IN  \E judge \in (IF judged THEN JudgeOutcomes ELSE {Raise}) :
             LET grade == verdict(answer, documents, judge)
                 calls == IF judged THEN <<Call("groundedness_judge", answer, judge)>>
                          ELSE <<>>
             IN  /\ hallucination_grade' = grade
                 /\ keys' = keys \cup {"hallucination_grade"}
                 /\ Step("check_hallucination",
                         decide_after_check(grade, get_is_web), calls)
                 /\ UNCHANGED <<question, documents, retry_count, answer,
                                sources, context_used, research_queries, is_web,
                                messages>>

\* AgentGraph.plan_research, then the edge to web_search
plan_research ==
    /\ pc = "plan_research"
    /\ \E llm \in PlannerOutcomes :
         /\ research_queries' = generate_queries(question, llm)
         /\ keys' = keys \cup {"research_queries"}
         /\ Step("plan_research", edge("plan_research"),
                 <<Call("planner", question, llm)>>)
         /\ UNCHANGED <<question, documents, retry_count, answer, sources,
                        context_used, is_web, hallucination_grade, messages>>

\* state.get("research_queries") or [state["question"]]
search_queries(planned, q) == IF planned # <<>> THEN planned ELSE <<q>>

\* AgentGraph.web_search, then the edge to synthesize_research
web_search ==
    /\ pc = "web_search"
    /\ LET queries == search_queries(get_research_queries, question)
       IN  \E web \in WebOutcomes(Len(queries)) :
             LET results == web_tool_search(queries, web)
             IN  /\ documents' = [i \in DOMAIN results |-> WebDoc(results[i])]
                 /\ is_web' = web_flag
                 /\ keys' = keys \cup {"documents", "is_web"}
                 /\ Step("web_search", edge("web_search"),
                         <<Call("web_search", queries, web)>>)
                 /\ UNCHANGED <<question, retry_count, answer, sources,
                                context_used, research_queries,
                                hallucination_grade, messages>>

\* AgentGraph.synthesize_research, then the edge to END
synthesize_research ==
    /\ pc = "synthesize_research"
    /\ \E llm \in SynthOutcomes :
         /\ answer' = synthesize(llm)
         /\ sources' = [i \in DOMAIN documents |->
                           [filename |-> "Web Search",
                            page |-> documents[i].metadata.page]]
         /\ messages' = Append(messages, synthesize(llm))
         /\ keys' = keys \cup {"messages", "answer", "context", "sources"}
         /\ Step("synthesize_research", edge("synthesize_research"),
                 <<Call("synthesizer", question, llm)>>)
         /\ UNCHANGED <<question, documents, retry_count, context_used,
                        research_queries, is_web, hallucination_grade>>

Next ==
    \/ retrieve
    \/ grade_documents
    \/ transform_query
    \/ generate
    \/ check_hallucination
    \/ plan_research
    \/ web_search
    \/ synthesize_research

Spec == Init /\ [][Next]_vars

\* the graph runner executes the next node whenever there is one
FairSpec == Spec /\ WF_vars(Next)

-----------------------------------------------------------------------------
(* check_hallucination and its edge applied to any AgentState: the state a   *)
(* caller hands to the node, whatever produced it                            *)

LocalEvidence == {DocsOf(h, "vector") : h \in SeqsUpTo(Contents, MaxTopK)}
WebEvidence ==
    {[i \in DOMAIN r |-> WebDoc(r[i])] :
        r \in {all_results(<<q>>, <<n>>, 1) : q \in Questions, n \in 0..MaxWebHits}}

InitCheck ==
    /\ top_k = MaxTopK
    /\ hybrid = FALSE
    /\ input \in Questions
    /\ pc = "check_hallucination"
    /\ question \in {input, better_question(input)}
    /\ retry_count \in 0..max_retries
    /\ is_web \in BOOLEAN
    /\ documents \in (IF is_web THEN WebEvidence ELSE LocalEvidence)
    /\ answer \in GeneratedAnswers \cup SynthesizedAnswers
    /\ keys = {"question", "documents", "retry_count", "answer", "sources",
               "context_used", "messages", "context"}
                 \cup (IF is_web THEN {"is_web", "research_queries"} ELSE {})
    /\ sources = <<>>
    /\ context_used = Len(documents)
    /\ research_queries = <<>>
    /\ hallucination_grade = "unset"
    /\ messages = <<answer>>
    /\ history = <<>>
    /\ io = <<>>
    /\ fault = "none"
    /\ rt = NoFrame
    /\ peer = NoPeer

NextCheck ==
    \/ check_hallucination
    \/ plan_research
    \/ web_search
    \/ synthesize_research

SpecCheck == InitCheck /\ [][NextCheck]_vars

-----------------------------------------------------------------------------
(* DocumentRetriever.retrieve called directly (scripts/query.py, app.py,     *)
(* eval/evaluator.py), one statement of the method per step                  *)

\* chunk texts of the corpus the retriever is called on
RContents == {"alpha", "beta", "gamma"}
RScoreLevels == {50, 60, 70, 90}

\* the k argument: not given (None), or an integer
NoK == [given |-> FALSE, val |-> 0]
GivenK(n) == [given |-> TRUE, val |-> n]
KArgs == {NoK} \cup {GivenK(n) : n \in (0 - 1)..(MaxTopK + 1)}

\* k = k or self.top_k
effective_k(karg) == IF karg.given /\ karg.val # 0 THEN karg.val ELSE top_k

\* a search asked for its top n: at most n hits when n >= 1; a store asked for
\* a non-positive number of results rejects the request or has nothing
RSearchOutcomes(n) ==
    IF n >= 1 THEN {Raise} \cup {Return(h) : h \in SeqsUpTo(RContents, n)}
    ELSE {Raise, Return(<<>>)}

RScoredHits == {[content |-> c, score |-> sc] : c \in Contents, sc \in RScoreLevels}
RScoredOutcomes(n) ==
    IF n >= 1 THEN {Raise} \cup {Return(h) : h \in SeqsUpTo(RScoredHits, n)}
    ELSE {Raise, Return(<<>>)}

KeysOf(docs) == {docs[i].page_content : i \in DOMAIN docs}

InitRetrieve ==
    /\ top_k \in 1..MaxTopK
    /\ hybrid \in BOOLEAN
    /\ input \in Questions
    /\ pc = "retriever"
    /\ keys = {}
    /\ question = input
    /\ documents = <<>>
    /\ retry_count = 0
    /\ answer = <<>>
    /\ sources = <<>>
    /\ context_used = 0
    /\ research_queries = <<>>
    /\ is_web = FALSE
    /\ hallucination_grade = "unset"
    /\ messages = <<>>
    /\ history = <<>>
    /\ io = <<>>
    /\ fault = "none"
    /\ rt = NoFrame
    /\ peer = NoPeer

\* retrieve(query, k) is entered: k is defaulted and the first search of the
\* chosen path is issued (BM25 with the k set at construction, self.top_k)
r_call ==
    /\ pc = "retriever"
    /\ rt.at = "idle"
    /\ \E karg \in KArgs :
         rt' = [at |-> IF hybrid THEN "hybrid" ELSE "semantic",
                query |-> question,
                k_arg |-> karg,
                k |-> effective_k(karg),
                kw |-> IF hybrid THEN "in_flight" ELSE "none",
                vec |-> IF hybrid THEN "none" ELSE "in_flight",
                bm25_k |-> top_k,
                vec_k |-> effective_k(karg),
                bm25_docs |-> <<>>,
                vector_results |-> <<>>,
                scores |-> <<>>,
                order |-> <<>>,
                result |-> <<>>]
    /\ UNCHANGED <<pc, state, config, history, io, fault, peer>>

\* bm25_retriever.invoke(query) comes back; on a result the vector search is
\* issued next, an exception leaves retrieve
r_bm25_return ==
    /\ rt.at = "hybrid"
    /\ rt.kw = "in_flight"
    /\ \E out \in RSearchOutcomes(rt.bm25_k) :
         rt' = IF out.raised
               THEN [rt EXCEPT !.at = "raised", !.kw = "raised"]
               ELSE [rt EXCEPT !.kw = "returned",
                               !.bm25_docs = DocsOf(out.value, "bm25"),
                               !.vec = "in_flight"]
    /\ UNCHANGED <<pc, state, config, history, io, fault, peer>>

\* vectorstore.similarity_search(query, k=k) comes back
r_vector_return ==
    /\ rt.at = "hybrid"
    /\ rt.vec = "in_flight"
    /\ \E out \in RSearchOutcomes(rt.vec_k) :
         rt' = IF out.raised
               THEN [rt EXCEPT !.at = "raised", !.vec = "raised"]
               ELSE [rt EXCEPT !.at = "fuse", !.vec = "returned",
                               !.vector_results = DocsOf(out.value, "vector")]
    /\ UNCHANGED <<pc, state, config, history, io, fault, peer>>

\* the two loops, the sort and the return of _retrieve_hybrid
r_fuse ==
    /\ rt.at = "fuse"
    /\ rt' = [rt EXCEPT
                !.at = "returned",
                !.scores = [key \in KeysOf(rt.bm25_docs \o rt.vector_results) |->
                               rrf_score(rt.bm25_docs, rt.vector_results, key)],
                !.order = SortedDesc(FirstSeen(rt.bm25_docs \o rt.vector_results, {}),
                                     rt.bm25_docs, rt.vector_results),
                !.result = rrf_fuse(rt.bm25_docs, rt.vector_results, rt.k)]
    /\ UNCHANGED <<pc, state, config, history, io, fault, peer>>

\* _retrieve_semantic: similarity_search_with_score(query, k=k) comes back and
\* the results are filtered
r_semantic_return ==
    /\ rt.at = "semantic"
    /\ rt.vec = "in_flight"
    /\ \E out \in RScoredOutcomes(rt.vec_k) :
         LET got == retrieve_semantic(out)
         IN  rt' = IF got.raised
                   THEN [rt EXCEPT !.at = "raised", !.vec = "raised"]
                   ELSE [rt EXCEPT !.at = "returned", !.vec = "returned",
                                   !.vector_results = out.value,
                                   !.result = got.value]
    /\ UNCHANGED <<pc, state, config, history, io, fault, peer>>

NextRetrieve ==
    \/ r_call
    \/ r_bm25_return
    \/ r_vector_return
    \/ r_fuse
    \/ r_semantic_return

SpecRetrieve == InitRetrieve /\ [][NextRetrieve]_vars

-----------------------------------------------------------------------------
(* Properties of the workflow *)

Range(s) == {s[i] : i \in DOMAIN s}
Last(s) == s[Len(s)]
IsPrefix(s, t) == Len(s) <= Len(t) /\ \A i \in DOMAIN s : s[i] = t[i]

\* the node that ran at position i, or the node about to run after the last
NodeAt(i) == IF i <= Len(history) THEN history[i] ELSE pc

\* every retrieval so far returned and every grading left the evidence empty
EmptyEvidenceRun == "generate" \notin Range(history) /\ pc \notin {"generate", "ABORTED"}

NoEvidencePath ==
    <<"retrieve", "grade_documents", "transform_query", "retrieve",
      "grade_documents", "plan_research", "web_search", "synthesize_research",
      "END">>

\* C1: with max_retries = 1, while every grading leaves the evidence empty the
\* nodes run in the order retrieve, grade_documents, transform_query, retrieve,
\* grade_documents, plan_research; transform_query never runs twice and
\* retrieve never three times.
C1_RetryBound ==
    /\ EmptyEvidenceRun => IsPrefix(Append(history, pc), NoEvidencePath)
    /\ Count(history, "transform_query") <= 1
    /\ Count(history, "retrieve") <= 2

C1_Witness ==
    /\ pc = "plan_research"
    /\ history = SubSeq(NoEvidencePath, 1, 5)

\* C2: whatever the collaborators return or raise, the workflow eventually
\* reaches END.
C2_Termination == <>(pc = "END")

\* C3: no failure of a collaborator call leaves app.invoke as an exception.
C3_FailureIsolation == pc # "ABORTED" /\ fault = "none"

\* C4: retry_count stays within 0..max_retries; it counts the transform_query
\* steps, and transform_query is only entered while it is below max_retries.
C4_RetryCountBounded ==
    /\ get_retry_count \in 0..max_retries
    /\ get_retry_count = Count(history, "transform_query")
    /\ pc = "transform_query" => get_retry_count < max_retries

C4_Witness ==
    /\ get_retry_count = max_retries
    /\ documents = <<>>
    /\ history # <<>> /\ Last(history) = "grade_documents"
    /\ pc = "plan_research"

\* C5: is_web is false at the start, is true exactly once web_search has run,
\* changes only in web_search and only from false to true, and web_search runs
\* at most once.
C5_WebFallbackOnce ==
    /\ [](get_is_web <=> "web_search" \in Range(history))
    /\ [](Count(history, "web_search") <= 1)
    /\ [][get_is_web' # get_is_web =>
            ~get_is_web /\ get_is_web' /\ pc = "web_search"]_vars

C5_Witness ==
    /\ get_is_web
    /\ Count(history, "web_search") = 1
    /\ pc = "END"

\* C6: when is_web is true, a hallucinated verdict of check_hallucination
\* leads to END and not to plan_research.
C6_FallbackBound ==
    [][pc = "check_hallucination" /\ get_is_web
          /\ hallucination_grade' = "hallucinated" => pc' = "END"]_vars

C6_Witness ==
    /\ history = <<"check_hallucination">>
    /\ get_is_web
    /\ hallucination_grade = "hallucinated"
    /\ pc = "END"

\* C7: after grade_documents the next node is transform_query exactly when the
\* evidence is empty and retry_count < 1, plan_research exactly when it is
\* empty and retry_count >= 1, generate exactly when it is non-empty.
C7_DecisionAfterGrading ==
    [][pc = "grade_documents" =>
          /\ pc' \in {"transform_query", "plan_research", "generate"}
          /\ pc' = "transform_query" <=> (documents' = <<>> /\ retry_count' < 1)
          /\ pc' = "plan_research" <=> (documents' = <<>> /\ retry_count' >= 1)
          /\ pc' = "generate" <=> documents' # <<>>]_vars

C7_Witness ==
    /\ history = <<"retrieve", "grade_documents">>
    /\ io # <<>> /\ io[1].callee = "relevance_judge"
    /\ documents = <<>>
    /\ pc = "transform_query"

\* C8: a grounded verdict leads to END with the answer as generated; a
\* hallucinated verdict while is_web is false leads to plan_research, and
\* plan_research is followed by web_search and then synthesize_research.
C8_DecisionAfterCheck ==
    /\ [][pc = "check_hallucination" =>
            /\ hallucination_grade' = "grounded" =>
                   pc' = "END" /\ answer' = answer /\ answer' = Last(messages')
            /\ (hallucination_grade' = "hallucinated" /\ ~get_is_web) =>
                   pc' = "plan_research"]_vars
    /\ [](\A i \in DOMAIN history :
             history[i] = "plan_research" =>
                 /\ NodeAt(i + 1) = "web_search"
                 /\ i + 1 <= Len(history) => NodeAt(i + 2) = "synthesize_research")

C8_Witness ==
    /\ Len(history) >= 4
    /\ SubSeq(history, Len(history) - 3, Len(history)) =
           <<"check_hallucination", "plan_research", "web_search",
             "synthesize_research">>
    /\ hallucination_grade = "hallucinated"
    /\ pc = "END"

\* C9: synthesize_research is the last node of its run: END follows it,
\* check_hallucination never runs once web_search has, and END then holds the
\* synthesized answer with one web citation per web document.
C9_SynthesisIsTerminal ==
    /\ \A i \in DOMAIN history :
          /\ history[i] = "synthesize_research" => i = Len(history) /\ pc = "END"
          /\ history[i] = "check_hallucination" =>
                 "web_search" \notin Range(SubSeq(history, 1, i))
    /\ (pc = "END" /\ "synthesize_research" \in Range(history)) =>
          /\ answer = synthesize(io[1].out)
          /\ Len(sources) = Len(documents)
          /\ \A i \in DOMAIN documents :
                /\ documents[i].metadata.type = "web"
                /\ sources[i] = [filename |-> "Web Search",
                                 page |-> documents[i].metadata.page]

C9_Witness ==
    /\ pc = "END"
    /\ history # <<>> /\ Last(history) = "synthesize_research"
    /\ sources # <<>>
    /\ "generate" \in Range(history)

\* C10: web_search calls the search tool with the planner's sub-queries, or
\* with the original question when there are none; the evidence becomes web
\* documents, is_web becomes true, and synthesize_research is next.
C10_WebSearchContract ==
    (history # <<>> /\ Last(history) = "web_search") =>
        /\ pc = "synthesize_research"
        /\ Len(io) = 1 /\ io[1].callee = "web_search"
        /\ io[1].arg = (IF get_research_queries # <<>> THEN get_research_queries
                        ELSE <<input>>)
        /\ \A i \in DOMAIN documents : documents[i].metadata.type = "web"
        /\ get_is_web


-----------------------------------------------------------------------------
(* Properties of a direct DocumentRetriever.retrieve call *)

Called == rt.at # "idle"
ReturnedHybrid == Called /\ hybrid /\ rt.at = "returned"
ReturnedSemantic == Called /\ ~hybrid /\ rt.at = "returned"
ContentsOf(docs) == [i \in DOMAIN docs |-> docs[i].page_content]
NoRepeats(s) == \A i, j \in DOMAIN s : s[i] = s[j] => i = j

\* the limit the caller asked for: k, or top_k when k is not given
Limit == IF rt.k_arg.given THEN rt.k_arg.val ELSE top_k

\* C11: in hybrid mode retrieve never raises: when one search raised the
\* call does not end in an exception.
C11_HybridDegradation ==
    (Called /\ hybrid /\ (rt.kw = "raised" \/ rt.vec = "raised"))
        => rt.at # "raised"

\* C12: neither search of a hybrid call is started only after the other has
\* completed: when the vector search is issued the keyword search is still in
\* flight.
C12_ConcurrentIssue ==
    [][(rt.at = "hybrid" /\ rt.vec = "none" /\ rt'.vec = "in_flight")
          => rt'.kw = "in_flight"]_vars

\* the positions of a content in a ranked list
Ranks(docs, key) == {r \in DOMAIN docs : docs[r].page_content = key}

RECURSIVE SumOver(_)
SumOver(R) ==
    IF R = {} THEN 0
    ELSE LET r == CHOOSE x \in R : TRUE
         IN  RRFScale \div (60 + r) + SumOver(R \ {r})

\* C13: with c = 60 the fused score of every content is the sum over both
\* lists of 1/(60 + r) for each 1-based rank r the content has there, nothing
\* from a list without it, so a content in both lists scores strictly more
\* than from either list alone.  Scores are in units of 1/RRFScale, exactly.
C13_FusionScore ==
    ReturnedHybrid =>
        /\ \A r \in 1..(MaxTopK + 1) : RRFScale % (60 + r) = 0
        /\ DOMAIN rt.scores = KeysOf(rt.bm25_docs) \cup KeysOf(rt.vector_results)
        /\ \A key \in DOMAIN rt.scores :
             /\ rt.scores[key] = SumOver(Ranks(rt.bm25_docs, key))
                                   + SumOver(Ranks(rt.vector_results, key))
             /\ (Ranks(rt.bm25_docs, key) # {} /\ Ranks(rt.vector_results, key) # {})
                   => /\ rt.scores[key] > SumOver(Ranks(rt.bm25_docs, key))
                      /\ rt.scores[key] > SumOver(Ranks(rt.vector_results, key))

C13_Witness ==
    /\ ReturnedHybrid
    /\ \E a, b \in DOMAIN rt.scores :
         /\ Ranks(rt.bm25_docs, a) = {2} /\ Ranks(rt.vector_results, a) = {1}
         /\ Ranks(rt.bm25_docs, b) = {1} /\ Ranks(rt.vector_results, b) = {}
         /\ rt.scores[a] > rt.scores[b]

\* position at which a content is first seen, the keyword list before the
\* vector list
FirstIndex(key) ==
    LET all == ContentsOf(rt.bm25_docs) \o ContentsOf(rt.vector_results)
    IN  CHOOSE i \in DOMAIN all :
            all[i] = key /\ \A j \in DOMAIN all : all[j] = key => i <= j

\* C14: the fused output lists every content once, by non-increasing fused
\* score, and contents of equal score in first-seen order; what is returned is
\* the head of that order.
C14_FusionOrder ==
    ReturnedHybrid =>
        /\ Range(rt.order) = DOMAIN rt.scores
        /\ NoRepeats(rt.order)
        /\ \A i, j \in DOMAIN rt.order :
             i < j => \/ rt.scores[rt.order[i]] > rt.scores[rt.order[j]]
                      \/ /\ rt.scores[rt.order[i]] = rt.scores[rt.order[j]]
                         /\ FirstIndex(rt.order[i]) < FirstIndex(rt.order[j])
        /\ IsPrefix(ContentsOf(rt.result), rt.order)

C14_Witness ==
    /\ ReturnedHybrid
    /\ Len(rt.result) = 3
    /\ rt.scores[rt.order[1]] > rt.scores[rt.order[2]]
    /\ rt.scores[rt.order[2]] = rt.scores[rt.order[3]]
    /\ rt.order[3] \notin KeysOf(rt.bm25_docs)

\* C15: for k >= 1, or k not given, retrieve returns at most k entries (at
\* most top_k when k is not given), in hybrid and in vector-only mode.
C15_AtMostK ==
    (Called /\ rt.at = "returned" /\ (rt.k_arg.given => rt.k_arg.val >= 1))
        => Len(rt.result) <= Limit

C15_Witness ==
    /\ ReturnedHybrid
    /\ rt.k_arg.given /\ rt.k_arg.val >= 1
    /\ Len(rt.order) > rt.k_arg.val
    /\ Len(rt.result) = rt.k_arg.val

\* C16: a retrieve with k = 0 or k negative returns an empty result.
C16_InvalidLimit ==
    (Called /\ rt.at = "returned" /\ rt.k_arg.given /\ rt.k_arg.val <= 0)
        => rt.result = <<>>

\* C17, as stated: two lists of length n with no content in common fuse to
\* min(2n, limit) entries; a list fused with a content-identical copy of itself
\* yields its distinct contents (up to the limit); no two entries of the output
\* have equal content.
C17_Deduplication ==
    (ReturnedHybrid /\ rt.k >= 1) =>
        /\ (/\ Len(rt.bm25_docs) = Len(rt.vector_results)
            /\ KeysOf(rt.bm25_docs) \cap KeysOf(rt.vector_results) = {})
              => Len(rt.result) = Min(2 * Len(rt.bm25_docs), rt.k)
        /\ ContentsOf(rt.bm25_docs) = ContentsOf(rt.vector_results)
              => /\ Range(rt.order) = KeysOf(rt.bm25_docs)
                 /\ Len(rt.result) = Min(Cardinality(KeysOf(rt.bm25_docs)), rt.k)
        /\ NoRepeats(ContentsOf(rt.result))

\* C17, amended: the length min(2n, limit) holds for two lists of length n
\* that have no content in common and no content repeated within a list; the
\* two other parts hold as stated.
C17_DeduplicationDistinct ==
    (ReturnedHybrid /\ rt.k >= 1) =>
        /\ (/\ Len(rt.bm25_docs) = Len(rt.vector_results)
            /\ KeysOf(rt.bm25_docs) \cap KeysOf(rt.vector_results) = {}
            /\ NoRepeats(ContentsOf(rt.bm25_docs))
            /\ NoRepeats(ContentsOf(rt.vector_results)))
              => Len(rt.result) = Min(2 * Len(rt.bm25_docs), rt.k)
        /\ ContentsOf(rt.bm25_docs) = ContentsOf(rt.vector_results)
              => /\ Range(rt.order) = KeysOf(rt.bm25_docs)
                 /\ Len(rt.result) = Min(Cardinality(KeysOf(rt.bm25_docs)), rt.k)
        /\ NoRepeats(ContentsOf(rt.result))
        /\ Len(rt.result) = Min(Cardinality(KeysOf(rt.bm25_docs)
                                              \cup KeysOf(rt.vector_results)), rt.k)

C17_Witness ==
    /\ ReturnedHybrid
    /\ rt.k >= 1
    /\ Len(rt.bm25_docs) = 2
    /\ NoRepeats(ContentsOf(rt.bm25_docs))
    /\ ContentsOf(rt.bm25_docs) = ContentsOf(rt.vector_results)
    /\ Len(rt.result) = 2

\* the hits of the vector search that reach the floor of 0.7
Qualifying == {i \in DOMAIN rt.vector_results : rt.vector_results[i].score >= 70}
NthQualifying(n) ==
    CHOOSE i \in Qualifying : Cardinality({m \in Qualifying : m <= i}) = n

\* C18: without a keyword index retrieve returns exactly the vector hits with
\* a score of at least 0.7, in their original order, raises only if the vector
\* search raised, and returns the empty list when no hit qualifies; scores
\* 0.9, 0.6, 0.5 leave one result.
C18_VectorOnlyFloor ==
    /\ ReturnedSemantic =>
          /\ Len(rt.result) = Cardinality(Qualifying)
          /\ \A n \in DOMAIN rt.result :
               rt.result[n].page_content
                   = <<rt.vector_results[NthQualifying(n)].content>>
          /\ [i \in DOMAIN rt.vector_results |-> rt.vector_results[i].score]
                 = <<90, 60, 50>> => Len(rt.result) = 1
    /\ (Called /\ ~hybrid /\ rt.at = "raised") => rt.vector_results = <<>>

C18_Witness ==
    /\ ReturnedSemantic
    /\ [i \in DOMAIN rt.vector_results |-> rt.vector_results[i].score] = <<90, 60, 50>>
    /\ Len(rt.result) = 1

\* C19: a hybrid retrieve(query, k) asks the keyword search and the vector
\* search for the top k of this call and fuses them with limit k.
C19_BothSearchesTopK ==
    (Called /\ hybrid) => rt.bm25_k = rt.k /\ rt.vec_k = rt.k

\* C20: for non-empty evidence the grader answers irrelevant only on an
\* explicit negative judgment of the judge; an ambiguous response and a failure
\* of the judge give relevant.
C20_GraderFailOpen ==
    (/\ history # <<>>
     /\ Last(history) = "grade_documents"
     /\ io # <<>>
     /\ documents = <<>>)
        => /\ ~io[1].out.raised
           /\ Contains(Lower(io[1].out.value), "no")

-----------------------------------------------------------------------------
(* Properties of the graders, the planner and the synthesizer in the workflow *)

After(node) == history # <<>> /\ Last(history) = node

\* the answer, lower-cased, contains one of the fixed refusal phrases
Refusing(ans) ==
    \E i \in DOMAIN ans :
        LowerTok(ans[i]) \in {"i don't have enough information",
                              "context does not contain",
                              "information is not available",
                              "cannot provide an answer",
                              "cannot answer",
                              "answer based on the context provided"}

\* C21: on empty evidence the grader returns irrelevant whatever the judge
\* would say, the judge is not called, and the evidence stays empty.
C21_EmptyEvidenceIrrelevant ==
    [][(pc = "grade_documents" /\ documents = <<>>)
          => /\ \A judge \in JudgeOutcomes :
                  relevance_grade(documents, judge) = "irrelevant"
             /\ io' = <<>>
             /\ documents' = <<>>
             /\ pc' \in {"transform_query", "plan_research"}]_vars

C21_Witness ==
    /\ After("grade_documents")
    /\ io = <<>>
    /\ documents = <<>>
    /\ pc = "transform_query"

\* C22: when the generated answer, lower-cased, contains a refusal phrase,
\* check_hallucination gives hallucinated without calling the judge and the
\* next node is plan_research, not END; "I cannot answer based on the context
\* provided." is such an answer.
C22_RefusalFastPath ==
    [][(pc = "check_hallucination" /\ Refusing(answer))
          => /\ hallucination_grade' = "hallucinated"
             /\ io' = <<>>
             /\ pc' = "plan_research"
             /\ Refusing(<<"I", "Cannot answer", "based on the context provided.">>)]_vars

C22_Witness ==
    /\ After("check_hallucination")
    /\ answer = <<"I", "Cannot answer", "based on the context provided.">>
    /\ hallucination_grade = "hallucinated"
    /\ io = <<>>
    /\ pc = "plan_research"

\* C23: with no evidence check_hallucination gives grounded without calling
\* the judge, whatever the answer, a refusal included, and the run ends.
C23_NoEvidenceGrounded ==
    [][(pc = "check_hallucination" /\ documents = <<>>)
          => /\ hallucination_grade' = "grounded"
             /\ io' = <<>>
             /\ pc' = "END"]_vars

C23_Witness ==
    /\ history = <<"check_hallucination">>
    /\ documents = <<>>
    /\ Refusing(answer)
    /\ hallucination_grade = "grounded"
    /\ io = <<>>

\* C24: when the judge call of check_hallucination fails the verdict is
\* grounded and the run ends with the generated answer; a hallucinated verdict
\* after a judge call comes only from a reply that does not contain yes.
C24_VerifierFailOpen ==
    (After("check_hallucination") /\ io # <<>>) =>
        /\ io[1].out.raised
              => /\ hallucination_grade = "grounded"
                 /\ pc = "END"
                 /\ answer = io[1].arg
                 /\ answer = Last(messages)
        /\ hallucination_grade = "hallucinated"
              => /\ ~io[1].out.raised
                 /\ \A i \in DOMAIN io[1].out.value :
                      io[1].out.value[i] \notin {"yes", "Yes"}

C24_Witness ==
    /\ After("check_hallucination")
    /\ io # <<>>
    /\ io[1].out.raised
    /\ hallucination_grade = "grounded"
    /\ pc = "END"

\* C25: the planner returns between 1 and 3 sub-queries, [question] when its
\* model call fails, and never an empty list.
C25_PlannerOneToThree ==
    After("plan_research") =>
        /\ Len(research_queries) \in 1..3
        /\ io[1].out.raised => research_queries = <<question>>

\* C26: synthesize_research never leaves the run with an exception: when the
\* synthesizer's model call fails its error string becomes the answer and the
\* last message, and the run is at END.
C26_SynthesizerNeverRaises ==
    After("synthesize_research") =>
        /\ pc = "END"
        /\ fault = "none"
        /\ io[1].callee = "synthesizer"
        /\ io[1].out.raised
              => /\ answer = <<"Error synthesizing research:">>
                 /\ Last(messages) = answer
        /\ ~io[1].out.raised => answer = io[1].out.value

C26_Witness ==
    /\ After("synthesize_research")
    /\ io[1].out.raised
    /\ answer = <<"Error synthesizing research:">>
    /\ pc = "END"

\* the question followed by n copies of the qualifying phrase
RECURSIVE Broadened(_, _)
Broadened(q, n) ==
    IF n = 0 THEN q ELSE Broadened(q, n - 1) \o <<"overview", "details">>

\* C27: transform_query appends the phrase "overview details" to the current
\* question, adds exactly 1 to retry_count, changes no other field and is
\* followed by retrieve; so the current question is always the original
\* question followed by retry_count copies of the phrase.
C27_TransformQuery ==
    /\ [](question = Broadened(input, get_retry_count))
    /\ [][pc = "transform_query"
            => /\ question' = question \o <<"overview", "details">>
               /\ "retry_count" \in keys'
               /\ retry_count' = get_retry_count + 1
               /\ pc' = "retrieve"
               /\ UNCHANGED <<documents, answer, sources, context_used,
                              research_queries, is_web, hallucination_grade,
                              messages>>
               /\ keys' \ keys \subseteq {"retry_count"}]_vars

C27_Witness ==
    /\ After("transform_query")
    /\ pc = "retrieve"
    /\ retry_count = 1
    /\ question = input \o <<"overview", "details">>

\* C28: grade_documents empties the evidence when the grade is irrelevant and
\* keeps it when the grade is relevant; after an irrelevant grade the next
\* node is the one an empty retrieval leads to (transform_query while
\* retry_count < 1, else plan_research, never generate); the question and
\* retry_count are not changed.
C28_GradeDocuments ==
    [][pc = "grade_documents"
          => LET grade == IF io' = <<>> THEN "irrelevant"
                          ELSE relevance_grade(documents, io'[1].out)
             IN  /\ (io' = <<>>) = (documents = <<>>)
                 /\ grade = "irrelevant"
                       => /\ documents' = <<>>
                          /\ pc' = decide_to_generate(<<>>, get_retry_count)
                          /\ pc' \in {"transform_query", "plan_research"}
                 /\ grade = "relevant"
                       => /\ documents' = documents
                          /\ pc' = "generate"
                 /\ grade \in {"relevant", "irrelevant"}
                 /\ question' = question
                 /\ "retry_count" \in keys' /\ retry_count' = get_retry_count]_vars

C28_Witness ==
    /\ After("grade_documents")
    /\ io # <<>>
    /\ ~io[1].out.raised
    /\ documents = <<>>
    /\ get_retry_count = 1
    /\ pc = "plan_research"

HappyPath == <<"retrieve", "grade_documents", "generate", "check_hallucination">>

\* C29: a run whose first retrieval brings n >= 1 chunks that are graded
\* relevant and whose answer is judged grounded is retrieve, grade_documents,
\* generate, check_hallucination, END; it ends with context_used = n, is_web
\* unset, retry_count = 0, sources not empty and no planner or web-search call;
\* the n chunks are those of the retrieval, untouched on the way.
C29_HappyPath ==
    /\ []((IsPrefix(HappyPath, history) /\ hallucination_grade = "grounded")
            => /\ pc = "END"
               /\ history = HappyPath
               /\ Len(documents) >= 1
               /\ context_used = Len(documents)
               /\ ~get_is_web
               /\ get_retry_count = 0
               /\ sources # <<>>
               /\ "research_queries" \notin keys
               /\ Range(history) \cap {"plan_research", "web_search"} = {})
    /\ [][(pc' = "generate" \/ pc \in {"generate", "check_hallucination"})
            => documents' = documents]_vars

C29_Witness ==
    /\ pc = "END"
    /\ history = HappyPath
    /\ hallucination_grade = "grounded"
    /\ context_used = 2
    /\ Len(sources) = 2
    /\ io # <<>> /\ ~io[1].out.raised

\* C30: a run in which both retrievals leave no evidence ends with is_web
\* true, every source tagged as a web source, the answer that of the
\* synthesizer, and generate never executed.
C30_NoEvidencePath ==
    (pc = "END" /\ Append(history, pc) = NoEvidencePath)
        => /\ get_is_web
           /\ "generate" \notin Range(history)
           /\ io[1].callee = "synthesizer"
           /\ answer = synthesize(io[1].out)
           /\ Len(sources) = Len(documents)
           /\ \A i \in DOMAIN sources :
                /\ "type" \in DOMAIN sources[i]
                /\ sources[i].type = "web"

-----------------------------------------------------------------------------
(* Properties of whole runs *)

WebFailed(out) == "installed" \in DOMAIN out \/ out.raised

\* C31: a run at END has an answer and a source list and no fault; a failed
\* or empty web search leaves web_search without an exception and with empty
\* evidence, and synthesize_research then stores an answer with as many
\* sources as there is evidence, none when the search failed.
C31_StructuredResult ==
    /\ [](pc = "END" => /\ {"answer", "sources"} \subseteq keys
                        /\ answer = Last(messages)
                        /\ fault = "none"
                        /\ Last(history) \in {"check_hallucination",
                                              "synthesize_research"})
    /\ [][pc = "web_search"
            => /\ pc' = "synthesize_research"
               /\ fault' = "none"
               /\ WebFailed(io'[1].out) => Len(documents') = 0]_vars
    /\ [][pc = "synthesize_research"
            => /\ pc' = "END"
               /\ "answer" \in keys'
               /\ answer' \in {io'[1].out.value, <<"Error synthesizing research:">>}
               /\ Len(sources') = Len(documents)]_vars

C31_Witness ==
    /\ pc = "END"
    /\ After("synthesize_research")
    /\ get_is_web
    /\ documents = <<>>
    /\ sources = <<>>
    /\ answer = <<"Report", "[Web 1]">>

\* C35: generate and check_hallucination only run on non-empty evidence, the
\* evidence check_hallucination sees is the one generate used, and so
\* check_hallucination never answers from its no-evidence branch.
C35_EvidenceAtGenerate ==
    /\ [](pc \in {"generate", "check_hallucination"} => documents # <<>>)
    /\ []((pc # "ABORTED" /\ (After("generate") \/ After("check_hallucination")))
            => /\ documents # <<>>
               /\ context_used = Len(documents))
    /\ [][(pc = "generate" \/ pc = "check_hallucination")
            => documents' = documents]_vars

C35_Witness ==
    /\ After("check_hallucination")
    /\ Len(documents) = 2
    /\ hallucination_grade = "grounded"
    /\ io # <<>>

\* C36: check_hallucination never runs with is_web true: is_web is written by
\* web_search only, after which only synthesize_research and END follow, so a
\* hallucinated verdict always leads to plan_research.
C36_NoCheckAfterWeb ==
    /\ [](pc = "check_hallucination" => ~get_is_web)
    /\ [](get_is_web => pc \in {"synthesize_research", "END"})
    /\ [][pc = "check_hallucination" /\ hallucination_grade' = "hallucinated"
            => pc' = "plan_research"]_vars
    /\ [][get_is_web' # get_is_web => pc = "web_search"]_vars

C36_Witness ==
    /\ pc = "END"
    /\ get_is_web
    /\ hallucination_grade = "hallucinated"
    /\ "generate" \in Range(history)

\* C37: a run executes retrieve and grade_documents at most twice,
\* transform_query and each of generate, check_hallucination, plan_research,
\* web_search and synthesize_research at most once, and nothing of retrieve,
\* grade_documents, transform_query after generate.
C37_BoundedWork ==
    /\ Count(history, "retrieve") <= 2
    /\ Count(history, "grade_documents") <= 2
    /\ \A n \in {"transform_query", "generate", "check_hallucination",
                 "plan_research", "web_search", "synthesize_research"} :
         Count(history, n) <= 1
    /\ LET run == Append(history, pc)
       IN  \A i, j \in DOMAIN run :
             (i < j /\ run[i] = "generate")
                => run[j] \notin {"retrieve", "grade_documents", "transform_query"}

C37_Witness ==
    /\ pc = "END"
    /\ Count(history, "retrieve") = 2
    /\ Count(history, "transform_query") = 1
    /\ "generate" \in Range(history)
    /\ "synthesize_research" \in Range(history)

\* C38: at END the reported context_used is the number of evidence chunks the
\* final answer was produced from, also when that answer is the synthesizer's.
C38_EvidenceCount ==
    pc = "END" => get_context_used = Len(documents)

-----------------------------------------------------------------------------
(* The fusion as a function of its two lists and k *)

FusedKeys == KeysOf(rt.bm25_docs) \cup KeysOf(rt.vector_results)
FusedScore(key) ==
    SumOver(Ranks(rt.bm25_docs, key)) + SumOver(Ranks(rt.vector_results, key))

\* a comes before b: higher score, or equal score and seen first
Precedes(a, b) ==
    \/ FusedScore(a) > FusedScore(b)
    \/ FusedScore(a) = FusedScore(b) /\ FirstIndex(a) < FirstIndex(b)
PlaceOf(key) == 1 + Cardinality({o \in FusedKeys : Precedes(o, key)})

\* the chunk object standing for a content: the keyword list's last chunk
\* with it, or without one the vector list's first
ChunkFor(key) ==
    LET kw == Ranks(rt.bm25_docs, key)
        vs == Ranks(rt.vector_results, key)
    IN  IF kw # {}
        THEN [page_content |-> key,
              metadata |-> rt.bm25_docs[CHOOSE r \in kw : TRUE].metadata,
              obj |-> <<"bm25", CHOOSE r \in kw : \A q \in kw : q <= r>>]
        ELSE [page_content |-> key,
              metadata |-> rt.vector_results[CHOOSE r \in vs : TRUE].metadata,
              obj |-> <<"vector", CHOOSE r \in vs : \A q \in vs : r <= q>>]

\* C33: the chunks a hybrid retrieval returns, and their order, are a function
\* of the keyword list, the vector list and k: the i-th is the chunk of the
\* content with i - 1 contents before it, and there are min(contents, k) of
\* them (all but the last |k| for a negative k).
C33_FusionDeterminism ==
    ReturnedHybrid =>
        /\ Len(rt.result) =
              IF rt.k >= 0 THEN Min(Cardinality(FusedKeys), rt.k)
              ELSE IF Cardinality(FusedKeys) + rt.k > 0
                   THEN Cardinality(FusedKeys) + rt.k ELSE 0
        /\ \A i \in DOMAIN rt.result :
             /\ rt.result[i].page_content \in FusedKeys
             /\ PlaceOf(rt.result[i].page_content) = i
             /\ rt.result[i] = ChunkFor(rt.result[i].page_content)

C33_Witness ==
    /\ ReturnedHybrid
    /\ rt.k = 2
    /\ Cardinality(FusedKeys) = 3
    /\ Len(rt.result) = 2
    /\ rt.result[1].obj[1] = "vector"

\* C39: a content at several ranks of one list gets the term 1/(60 + r) of
\* each of them and is returned once; for a content of both lists the chunk
\* returned is the keyword list's last chunk with it, not a vector one.
C39_EveryOccurrenceCounts ==
    ReturnedHybrid =>
        /\ \A key \in FusedKeys :
             /\ rt.scores[key] = FusedScore(key)
             /\ \A r1, r2 \in Ranks(rt.bm25_docs, key) :
                  r1 # r2 => rt.scores[key] >= RRFScale \div (60 + r1)
                                                 + RRFScale \div (60 + r2)
             /\ \A r1, r2 \in Ranks(rt.vector_results, key) :
                  r1 # r2 => rt.scores[key] >= RRFScale \div (60 + r1)
                                                 + RRFScale \div (60 + r2)
             /\ Cardinality({i \in DOMAIN rt.order : rt.order[i] = key}) = 1
             /\ Cardinality({i \in DOMAIN rt.result :
                                rt.result[i].page_content = key}) <= 1
        /\ \A i \in DOMAIN rt.result :
             LET kw == Ranks(rt.bm25_docs, rt.result[i].page_content)
             IN  kw # {} => /\ rt.result[i].obj[1] = "bm25"
                            /\ rt.result[i].obj[2] \in kw
                            /\ \A r \in kw : r <= rt.result[i].obj[2]

C39_Witness ==
    /\ ReturnedHybrid
    /\ \E key \in FusedKeys :
         /\ Ranks(rt.bm25_docs, key) = {1, 2}
         /\ Ranks(rt.vector_results, key) = {1}
         /\ rt.scores[key] = 2 * (RRFScale \div 61) + RRFScale \div 62
         /\ rt.result[1].page_content = key
         /\ rt.result[1].obj = <<"bm25", 2>>

-----------------------------------------------------------------------------
(* TextChunker.chunk_documents called on loaded documents (app.py,           *)
(* tests/test_basic.py)                                                      *)

\* texts of no, one and two units, and the metadata the loaders and the tests
\* give a document
ChunkTexts == {<<>>, <<"A">>, <<"A", "A">>}
ChunkMetadata == {[source |-> "test.pdf"], [source |-> "test.pdf", page |-> 1]}
SourceDocs == {[page_content |-> t, metadata |-> m] : t \in ChunkTexts, m \in ChunkMetadata}

\* the pieces RecursiveCharacterTextSplitter can cut a text into: none for an
\* empty text, else the whole text or its units
Splits(text) ==
    IF text = <<>> THEN {<<>>}
    ELSE {<<text>>, [j \in DOMAIN text |-> <<text[j]>>]}

\* splitter.split_documents: every piece becomes a Document with a copy of the
\* metadata of the document it was cut from (src remembers which one)
RECURSIVE split_documents(_, _, _)
split_documents(docs, pieces, d) ==
    IF d > Len(docs) THEN <<>>
    ELSE [j \in DOMAIN pieces[d] |->
             [page_content |-> pieces[d][j],
              metadata |-> docs[d].metadata,
              src |-> d]]
           \o split_documents(docs, pieces, d + 1)

\* a chunker that replaces the metadata by the two chunk entries
with_chunk_metadata_fresh(meta, i, size) == [chunk_id |-> i, chunk_size |-> size]

\* doc.metadata["chunk_id"] = i; doc.metadata["chunk_size"] = len(doc.page_content)
with_chunk_metadata(meta, i, size) ==
    [key \in DOMAIN meta \cup {"chunk_id", "chunk_size"} |->
        IF key = "chunk_id" THEN i
        ELSE IF key = "chunk_size" THEN size
        ELSE meta[key]]

\* the loop of chunk_documents over enumerate(chunked_docs)
chunk_documents(chunked_docs) ==
    [n \in DOMAIN chunked_docs |->
        [chunked_docs[n] EXCEPT
            !.metadata = with_chunk_metadata(@, n - 1, Len(chunked_docs[n].page_content))]]

InitChunk ==
    /\ top_k = 1
    /\ hybrid = FALSE
    /\ input \in Questions
    /\ pc = "chunker"
    /\ keys = {}
    /\ question = input
    /\ documents = <<>>
    /\ retry_count = 0
    /\ answer = <<>>
    /\ sources = <<>>
    /\ context_used = 0
    /\ research_queries = <<>>
    /\ is_web = FALSE
    /\ hallucination_grade = "unset"
    /\ messages = <<>>
    /\ history = <<>>
    /\ io = <<>>
    /\ fault = "none"
    /\ rt = NoFrame
    /\ peer = NoPeer

\* chunk_documents(documents) is entered
c_call ==
    /\ pc = "chunker"
    /\ rt.at = "idle"
    /\ \E docs \in SeqsUpTo(SourceDocs, MaxDocs) :
         rt' = [at |-> "split", documents |-> docs, chunked_docs |-> <<>>,
                result |-> <<>>]
    /\ UNCHANGED <<pc, state, config, history, io, fault, peer>>

\* self.splitter.split_documents(documents) comes back
c_split ==
    /\ rt.at = "split"
    /\ \E pieces \in [DOMAIN rt.documents -> UNION {Splits(t) : t \in ChunkTexts}] :
         /\ \A d \in DOMAIN rt.documents :
              pieces[d] \in Splits(rt.documents[d].page_content)
         /\ rt' = [rt EXCEPT !.at = "tag",
                             !.chunked_docs = split_documents(rt.documents, pieces, 1)]
    /\ UNCHANGED <<pc, state, config, history, io, fault, peer>>

\* the chunk metadata are added and the list is returned
c_tag ==
    /\ rt.at = "tag"
    /\ rt' = [rt EXCEPT !.at = "chunked",
                        !.result = chunk_documents(rt.chunked_docs)]
    /\ UNCHANGED <<pc, state, config, history, io, fault, peer>>

NextChunk ==
    \/ c_call
    \/ c_split
    \/ c_tag

SpecChunk == InitChunk /\ [][NextChunk]_vars

-----------------------------------------------------------------------------
(* Two app.invoke calls on one AgentGraph (scripts/serve.py: one agent for   *)
(* all requests), their steps interleaved in any order                       *)

\* the invocation that is not running, as it was left after its last step
Suspended(id) ==
    [id |-> id, pc |-> pc, input |-> input, keys |-> keys,
     question |-> question, documents |-> documents,
     retry_count |-> retry_count, answer |-> answer, sources |-> sources,
     context_used |-> context_used, research_queries |-> research_queries,
     is_web |-> is_web, hallucination_grade |-> hallucination_grade,
     messages |-> messages, history |-> history, io |-> io, fault |-> fault]

\* invocation 1 asks about revenue and runs first, invocation 2 asks about
\* risks and has not made a step yet
InitPair ==
    /\ top_k = 1
    /\ hybrid = FALSE
    /\ input = <<"revenue">>
    /\ pc = "retrieve"
    /\ keys = {"question"}
    /\ question = input
    /\ documents = <<>>
    /\ retry_count = 0
    /\ answer = <<>>
    /\ sources = <<>>
    /\ context_used = 0
    /\ research_queries = <<>>
    /\ is_web = FALSE
    /\ hallucination_grade = "unset"
    /\ messages = <<>>
    /\ history = <<>>
    /\ io = <<>>
    /\ fault = "none"
    /\ rt = NoFrame
    /\ peer = [Suspended(2) EXCEPT !.input = <<"risks">>,
                                   !.question = <<"risks">>]

\* the scheduler lets the other invocation run, if it has a step left
switch ==
    /\ peer # NoPeer
    /\ peer.pc \notin {"END", "ABORTED"}
    /\ pc' = peer.pc
    /\ input' = peer.input
    /\ keys' = peer.keys
    /\ question' = peer.question
    /\ documents' = peer.documents
    /\ retry_count' = peer.retry_count
    /\ answer' = peer.answer
    /\ sources' = peer.sources
    /\ context_used' = peer.context_used
    /\ research_queries' = peer.research_queries
    /\ is_web' = peer.is_web
    /\ hallucination_grade' = peer.hallucination_grade
    /\ messages' = peer.messages
    /\ history' = peer.history
    /\ io' = peer.io
    /\ fault' = peer.fault
    /\ peer' = Suspended(3 - peer.id)
    /\ UNCHANGED <<top_k, hybrid, rt>>

\* the planner's reply has at most one line
ShortPlan == \A i \in DOMAIN io' : ~io'[i].out.raised => Len(io'[i].out.value) <= 1

NextPair ==
    \/ retrieve
    \/ grade_documents
    \/ transform_query
    \/ generate
    \/ check_hallucination
    \/ plan_research /\ ShortPlan
    \/ web_search
    \/ synthesize_research
    \/ switch

SpecPair == InitPair /\ [][NextPair]_vars

\* the calls of the last step were made for this invocation's own question
OwnCalls(calls, q) ==
    \A i \in DOMAIN calls :
        /\ calls[i].callee \in {"relevance_judge", "generator", "planner", "synthesizer"}
              => calls[i].arg = q
        /\ calls[i].callee = "vector" => calls[i].arg[1] = q

\* C32: with two invocations interleaved on one graph, a step of one leaves
\* the state of the other exactly as it was, a resumed invocation continues
\* from the state it was suspended in, and each one's question, calls and
\* step sequence are those of its own question, as when it runs alone.
C32_WorkflowIsolation ==
    /\ [][\/ /\ peer' = peer
             /\ input' = input
          \/ /\ peer'.id = 3 - peer.id
             /\ peer' = Suspended(3 - peer.id)
             /\ [Suspended(0)' EXCEPT !.id = peer.id] = peer]_vars
    /\ [](/\ question = Broadened(input, get_retry_count)
          /\ peer.question = Broadened(peer.input, peer.retry_count)
          /\ input = (IF peer.id = 2 THEN <<"revenue">> ELSE <<"risks">>)
          /\ peer.input = (IF peer.id = 1 THEN <<"revenue">> ELSE <<"risks">>)
          /\ OwnCalls(io, question)
          /\ OwnCalls(peer.io, peer.question)
          /\ IsPrefix(history, NoEvidencePath)
                \/ \E n \in 2..5 :
                     /\ IsPrefix(SubSeq(history, 1, n), NoEvidencePath)
                     /\ history[n] = "grade_documents"
                     /\ IsPrefix(SubSeq(history, n + 1, Len(history)),
                                 <<"generate", "check_hallucination", "plan_research",
                                   "web_search", "synthesize_research">>))

C32_Witness ==
    /\ peer.id = 2
    /\ pc = "check_hallucination"
    /\ Len(documents) = 1
    /\ history = SubSeq(HappyPath, 1, 3)
    /\ peer.pc = "web_search"
    /\ peer.history = SubSeq(NoEvidencePath, 1, 6)
    /\ peer.retry_count = 1
    /\ peer.documents = <<>>


====
